---- MODULE Spec2Model ----
(***************************************************************************)
(* Model of dataflow-mcp: the manifest generator and validator             *)
(* (src/tools/manifest.rs) and the Kafka Connect migration mapper          *)
(* (src/tools/kafka_connect.rs).                                           *)
(*                                                                         *)
(* Strings whose characters matter (connector class names, resource names) *)
(* are sequences of one-character strings; strings that are only compared  *)
(* for equality (type names, keys, messages) are TLA+ strings.             *)
(***************************************************************************)
EXTENDS Integers, Sequences, FiniteSets, TLC

VARIABLES request, response, pc, connectors, idx, source_spec, sink_spec, all_notes

vars == <<request, response, pc, connectors, idx, source_spec, sink_spec, all_notes>>

migrate_locals == <<connectors, idx, source_spec, sink_spec, all_notes>>

(***************************************************************************)
(* Bounds                                                                  *)
(***************************************************************************)
MaxConnectors == 2

MaxDescriptionLines == 2

MaxPad == 1

MaxNameLen == 3

(***************************************************************************)
(* Characters and strings                                                  *)
(***************************************************************************)
UpperChars == <<"A","B","C","D","E","F","G","H","I","J","K","L","M",
                "N","O","P","Q","R","S","T","U","V","W","X","Y","Z">>

LowerChars == <<"a","b","c","d","e","f","g","h","i","j","k","l","m",
                "n","o","p","q","r","s","t","u","v","w","x","y","z">>

DigitChars == {"0","1","2","3","4","5","6","7","8","9"}

\* U+0130 (LATIN CAPITAL LETTER I WITH DOT ABOVE) is alphabetic; its lowercase
\* form is the two characters "i" and U+0307 (COMBINING DOT ABOVE), and U+0307
\* is a mark, not an alphanumeric character.
CapitalIDot == "U+0130"

CombiningDot == "U+0307"

RangeOf(s) == {s[k] : k \in 1..Len(s)}

\* the line feed: the character that ends a line of text
LineFeed == "\n"

OtherChars == {".", "-", "_", ":", ",", " ", "/", "@", "?", LineFeed}

Alphabet ==
    RangeOf(UpperChars) \cup RangeOf(LowerChars) \cup DigitChars \cup OtherChars
    \cup {CapitalIDot, CombiningDot}

\* char::is_alphanumeric
AlphanumericChars ==
    RangeOf(UpperChars) \cup RangeOf(LowerChars) \cup DigitChars \cup {CapitalIDot}

is_alphanumeric(c) == c \in AlphanumericChars

\* char::to_lowercase: the characters a character lowercases to
LowercaseOf ==
    [c \in Alphabet |->
        IF c \in RangeOf(UpperChars)
        THEN <<LowerChars[CHOOSE k \in 1..Len(UpperChars) : UpperChars[k] = c]>>
        ELSE IF c = CapitalIDot THEN <<"i", CombiningDot>>
        ELSE <<c>>]

char_to_lowercase(c) == LowercaseOf[c]

\* str::to_lowercase: character by character; only U+0130 changes the length
RECURSIVE to_lowercase(_)
to_lowercase(s) ==
    IF \A k \in 1..Len(s) : s[k] # CapitalIDot
    THEN [k \in 1..Len(s) |-> char_to_lowercase(s[k])[1]]
    ELSE char_to_lowercase(Head(s)) \o to_lowercase(Tail(s))

\* str::contains(pattern)
contains(s, p) ==
    \E k \in 1..(Len(s) - Len(p) + 1) : \A j \in 1..Len(p) : s[k + j - 1] = p[j]

RECURSIVE trim_start_matches(_, _)
trim_start_matches(s, c) ==
    IF s # <<>> /\ Head(s) = c THEN trim_start_matches(Tail(s), c) ELSE s

RECURSIVE trim_end_matches(_, _)
trim_end_matches(s, c) ==
    IF s # <<>> /\ s[Len(s)] = c THEN trim_end_matches(SubSeq(s, 1, Len(s) - 1), c) ELSE s

trim_matches(s, c) == trim_end_matches(trim_start_matches(s, c), c)

sanitize_name(s) ==
    to_lowercase(trim_matches(
        [k \in 1..Len(s) |-> IF is_alphanumeric(s[k]) \/ s[k] = "-" THEN s[k] ELSE "-"],
        "-"))

(***************************************************************************)
(* Values: Option, serde_json::Value, and texts handed in as arguments     *)
(***************************************************************************)
None == [t |-> "none"]

JStr(s) == [t |-> "str", s |-> s]

\* a string value whose characters are modelled (a resource name)
JChars(c) == [t |-> "chars", c |-> c]

JNum(n) == [t |-> "num", n |-> n]

JArr(a) == [t |-> "arr", a |-> a]

\* a JSON object is the sequence of its <<key, value>> entries; the order of the
\* entries is the order the serializer writes them in, which no parser observes
JObj(o) == [t |-> "obj", o |-> o]

HasKey(o, k) == \E n \in 1..Len(o) : o[n][1] = k

\* serde_json::Map::insert
insert(o, k, v) ==
    IF HasKey(o, k)
    THEN [n \in 1..Len(o) |-> IF o[n][1] = k THEN <<k, v>> ELSE o[n]]
    ELSE Append(o, <<k, v>>)

\* a text that is meant to be JSON: either it denotes a value or it is malformed
JsonText(v) == [t |-> "json", wf |-> TRUE, v |-> v]

MalformedJson == [t |-> "json", wf |-> FALSE, v |-> None]

\* serde_json::from_str::<Value>
json_from_str_value(text) ==
    IF text.wf THEN [ok |-> TRUE, v |-> text.v] ELSE [ok |-> FALSE, v |-> None]

\* serde_json::from_str::<Map<String, Value>>: only an object deserializes
json_from_str_map(text) ==
    IF text.wf /\ text.v.t = "obj" THEN [ok |-> TRUE, v |-> text.v.o]
    ELSE [ok |-> FALSE, v |-> <<>>]

(***************************************************************************)
(* Manifest text: a sequence of lines.  A line is [ind, key, val]: a       *)
(* mapping entry at indentation ind, or a comment, a blank line or a line  *)
(* of plain text (key "").                                                 *)
(***************************************************************************)
CommentLine(c) == [ind |-> 0, key |-> "", val |-> [t |-> "comment", c |-> c]]

BlankLine == [ind |-> 0, key |-> "", val |-> [t |-> "blank"]]

PlainLine(c) == [ind |-> 0, key |-> "", val |-> [t |-> "plain", c |-> c]]

EntryLine(ind, k, v) == [ind |-> ind, key |-> k, val |-> v]

Header == [t |-> "header"]

\* serde_yaml::to_string of a map: one line per scalar entry, a header line and
\* an indented block per non-empty nested map, "key: {}" for an empty one
RECURSIVE yaml_to_string(_, _)
yaml_to_string(o, ind) ==
    IF o = <<>> THEN <<>>
    ELSE LET k == Head(o)[1]
             v == Head(o)[2]
             here == IF v.t = "obj" /\ v.o # <<>>
                     THEN <<EntryLine(ind, k, Header)>> \o yaml_to_string(v.o, ind + 1)
                     ELSE <<EntryLine(ind, k, v)>>
         IN  here \o yaml_to_string(Tail(o), ind)

IsContent(l) == l.val.t \notin {"comment", "blank"}

RECURSIVE LeadingDeeper(_, _)
LeadingDeeper(ls, ind) ==
    IF ls # <<>> /\ Head(ls).ind > ind THEN 1 + LeadingDeeper(Tail(ls), ind) ELSE 0

\* the YAML parser on the content lines of a block at indentation ind:
\* [ok, o] with o the entries of the mapping
RECURSIVE yaml_block(_, _)
yaml_block(ls, ind) ==
    IF ls = <<>> THEN [ok |-> TRUE, o |-> <<>>]
    ELSE IF Head(ls).ind # ind \/ Head(ls).val.t = "plain" THEN [ok |-> FALSE, o |-> <<>>]
    ELSE LET h == Head(ls)
             n == LeadingDeeper(Tail(ls), ind)
             kids == SubSeq(ls, 2, n + 1)
             more == SubSeq(ls, n + 2, Len(ls))
             sub == yaml_block(kids, ind + 1)
             rest == yaml_block(more, ind)
             v == IF h.val.t = "header"
                  THEN (IF kids = <<>> THEN None ELSE JObj(sub.o))
                  ELSE h.val
         IN  IF ~sub.ok \/ ~rest.ok \/ (h.val.t # "header" /\ kids # <<>>)
             THEN [ok |-> FALSE, o |-> <<>>]
             ELSE [ok |-> TRUE, o |-> <<<<h.key, v>>>> \o rest.o]

yaml_parse(text) == yaml_block(SelectSeq(text, IsContent), 0)

(***************************************************************************)
(* src/types.rs                                                            *)
(***************************************************************************)
DATAFLOW_API_VERSION == "dataflow.dataflow.io/v1"

DATAFLOW_KIND == "DataFlow"

SOURCE_TYPES == <<"kafka", "postgresql", "trino">>

SINK_TYPES == <<"kafka", "postgresql", "trino">>

FieldCount(o, k) == Cardinality({n \in 1..Len(o) : o[n][1] = k})

\* the value of entry k, None when the mapping has no such entry
Field(o, k) == IF HasKey(o, k) THEN o[CHOOSE n \in 1..Len(o) : o[n][1] = k][2] ELSE None

\* a derived Deserialize rejects a field that occurs twice
DuplicateField(o, fields) == \E k \in fields : FieldCount(o, k) > 1

\* Option<String>: absent or null is None, a string is Some, anything else fails
de_option_string(v) ==
    IF v.t \in {"none", "str", "chars"} THEN [ok |-> TRUE, v |-> v] ELSE [ok |-> FALSE, v |-> None]

Failed == [ok |-> FALSE, v |-> None]

\* ParsedSource and ParsedSink: type, kafka, postgresql, trino; other keys are ignored
ParsedEndpoint(v) ==
    IF v.t = "none" THEN [ok |-> TRUE, v |-> None]
    ELSE IF v.t # "obj" \/ DuplicateField(v.o, {"type", "kafka", "postgresql", "trino"}) THEN Failed
    ELSE LET ty == de_option_string(Field(v.o, "type"))
         IN  IF ~ty.ok THEN Failed
             ELSE [ok |-> TRUE,
                   v |-> [type_ |-> ty.v,
                          kafka |-> Field(v.o, "kafka"),
                          postgresql |-> Field(v.o, "postgresql"),
                          trino |-> Field(v.o, "trino")]]

ParsedSpec(v) ==
    IF v.t = "none" THEN [ok |-> TRUE, v |-> None]
    ELSE IF v.t # "obj" \/ DuplicateField(v.o, {"source", "sink"}) THEN Failed
    ELSE LET source == ParsedEndpoint(Field(v.o, "source"))
             sink == ParsedEndpoint(Field(v.o, "sink"))
         IN  IF ~source.ok \/ ~sink.ok THEN Failed
             ELSE [ok |-> TRUE, v |-> [source |-> source.v, sink |-> sink.v]]

ParsedMetadata(v) ==
    IF v.t = "none" THEN [ok |-> TRUE, v |-> None]
    ELSE IF v.t # "obj" \/ DuplicateField(v.o, {"name", "namespace"}) THEN Failed
    ELSE LET name == de_option_string(Field(v.o, "name"))
             namespace == de_option_string(Field(v.o, "namespace"))
         IN  IF ~name.ok \/ ~namespace.ok THEN Failed
             ELSE [ok |-> TRUE, v |-> [name |-> name.v, namespace |-> namespace.v]]

\* serde_yaml::from_str::<ParsedDataFlow>
ParsedDataFlow(text) ==
    LET doc == yaml_parse(text)
    IN  IF ~doc.ok \/ DuplicateField(doc.o, {"apiVersion", "kind", "metadata", "spec"}) THEN Failed
        ELSE LET api_version == de_option_string(Field(doc.o, "apiVersion"))
                 kind == de_option_string(Field(doc.o, "kind"))
                 metadata == ParsedMetadata(Field(doc.o, "metadata"))
                 spec == ParsedSpec(Field(doc.o, "spec"))
             IN  IF ~api_version.ok \/ ~kind.ok \/ ~metadata.ok \/ ~spec.ok THEN Failed
                 ELSE [ok |-> TRUE,
                       v |-> [api_version |-> api_version.v, kind |-> kind.v,
                              metadata |-> metadata.v, spec |-> spec.v]]

(***************************************************************************)
(* Results                                                                 *)
(***************************************************************************)
NoResponse == [status |-> "none", value |-> <<>>, errors |-> <<>>]

\* a successful result and the value returned (the text of a manifest, as lines)
Ok(value) == [status |-> "ok", value |-> value, errors |-> <<>>]

Err(errors) == [status |-> "err", value |-> <<>>, errors |-> errors]

\* an error message: the fixed wording e and the values formatted into it
Msg(e, of) == [e |-> e, of |-> of]

(***************************************************************************)
(* src/tools/manifest.rs                                                   *)
(***************************************************************************)
DefaultGenerateName == <<"d","a","t","a","f","l","o","w","-","e","x","a","m","p","l","e">>

\* the lines of "# Description: {}\n": the first line of the description ends the
\* comment, every further line of it is a line of the output in its own right
DescriptionLines(description) ==
    IF description = None THEN <<>>
    ELSE <<CommentLine([description |-> Head(description.lines)])>> \o Tail(description.lines)

\* check_types with the sink type checked before the source type
check_types_sink_first(source_type, sink_type) ==
    IF sink_type \notin RangeOf(SINK_TYPES)
    THEN <<Msg("sink_type must be one of", SINK_TYPES)>>
    ELSE IF source_type \notin RangeOf(SOURCE_TYPES)
    THEN <<Msg("source_type must be one of", SOURCE_TYPES)>>
    ELSE <<>>

\* lines 19-30: the errors of the two type checks, source first
check_types(source_type, sink_type) ==
    IF source_type \notin RangeOf(SOURCE_TYPES)
    THEN <<Msg("source_type must be one of", SOURCE_TYPES)>>
    ELSE IF sink_type \notin RangeOf(SINK_TYPES)
    THEN <<Msg("sink_type must be one of", SINK_TYPES)>>
    ELSE <<>>

\* source_config_obj with the leniency of sink_config_obj
source_config_obj_lenient(source_config) ==
    IF source_config # None /\ json_from_str_map(source_config).ok
    THEN json_from_str_map(source_config)
    ELSE [ok |-> TRUE, v |-> <<>>]

\* lines 43-47: a source_config that is no JSON object is an error
source_config_obj(source_config) ==
    IF source_config # None THEN json_from_str_map(source_config)
    ELSE [ok |-> TRUE, v |-> <<>>]

\* lines 52-56: a sink_config that is no JSON object is the empty object
sink_config_obj(sink_config) ==
    IF sink_config # None /\ json_from_str_map(sink_config).ok
    THEN json_from_str_map(sink_config)
    ELSE [ok |-> TRUE, v |-> <<>>]

\* lines 62-69: [ok, spec]: spec with the transformations when they are a
\* non-empty array; only a text that is no JSON at all is an error
with_transformations(spec, transformations) ==
    LET arr == IF transformations # None THEN json_from_str_value(transformations)
               ELSE [ok |-> TRUE, v |-> None]
    IN  [ok |-> arr.ok,
         spec |-> IF arr.v.t = "arr" /\ arr.v.a # <<>>
                  THEN insert(spec, "transformations", arr.v) ELSE spec]

\* lines 32-36: the name is written as given
metadata_name(name) == IF name = None THEN DefaultGenerateName ELSE name.c

generate_dataflow_manifest(r) ==
    LET metadata0 == insert(<<>>, "name", JChars(metadata_name(r.name)))
        metadata == IF r.namespace # None
                    THEN insert(metadata0, "namespace", r.namespace) ELSE metadata0
        source_config == source_config_obj(r.source_config)
        source == insert(insert(<<>>, "type", JStr(r.source_type)),
                         r.source_type, JObj(source_config.v))
        sink == insert(insert(<<>>, "type", JStr(r.sink_type)),
                       r.sink_type, JObj(sink_config_obj(r.sink_config).v))
        spec == with_transformations(
                    insert(insert(<<>>, "source", JObj(source)), "sink", JObj(sink)),
                    r.transformations)
        top == insert(insert(insert(insert(<<>>,
                   "apiVersion", JStr(DATAFLOW_API_VERSION)),
                   "kind", JStr(DATAFLOW_KIND)),
                   "metadata", JObj(metadata)),
                   "spec", JObj(spec.spec))
    IN  IF check_types(r.source_type, r.sink_type) # <<>>
        THEN Err(check_types(r.source_type, r.sink_type))
        ELSE IF ~source_config.ok THEN Err(<<Msg("source_config invalid JSON", <<>>)>>)
        ELSE IF ~spec.ok THEN Err(<<Msg("transformations invalid JSON", <<>>)>>)
        ELSE Ok(<<CommentLine([generated |-> TRUE])>>
                \o DescriptionLines(r.description)
                \o yaml_to_string(top, 0))

\* Option<String>::as_deref().unwrap_or("")
TypeName(v) == IF v.t = "str" THEN v.s ELSE ""

\* the sub-block of an endpoint named after its type; ParsedSource and ParsedSink
\* declare no clickhouse field
SubBlock(e, ty) == IF ty \in DOMAIN e THEN e[ty] ELSE None

\* the type check and the match on the type, for spec.source or spec.sink
EndpointErrors(side, e, TYPES) ==
    LET ty == TypeName(e.type_)
    IN  IF ty \notin RangeOf(TYPES)
        THEN <<Msg("type must be one of", <<side>> \o TYPES)>>
        ELSE IF ty \in {"kafka", "postgresql", "trino", "clickhouse"} /\ SubBlock(e, ty) = None
        THEN <<Msg("is required when type is", <<side, ty>>)>>
        ELSE <<>>

\* missing_parent dropping the errors collected before it
missing_parent_alone(errors, what) == Err(<<Msg(what, <<>>)>>)

\* lines 105-108, 112-115, 119-122: a missing parent ends validation with the
\* errors so far and its own
missing_parent(errors, what) == Err(Append(errors, Msg(what, <<>>)))

\* validate_dataflow_manifest leaving out the sink checks once the source has an error
validate_dataflow_manifest_stops_at_source(config_yaml) ==
    LET parsed == ParsedDataFlow(config_yaml)
        e1 == IF parsed.v.api_version # JStr(DATAFLOW_API_VERSION)
              THEN <<Msg("apiVersion must be", <<DATAFLOW_API_VERSION>>)>> ELSE <<>>
        e2 == e1 \o (IF parsed.v.kind # JStr(DATAFLOW_KIND)
                     THEN <<Msg("kind must be", <<DATAFLOW_KIND>>)>> ELSE <<>>)
        spec == parsed.v.spec
        e3 == e2 \o EndpointErrors("source", spec.source, SOURCE_TYPES)
        e4 == IF e3 # e2 THEN e3 ELSE e3 \o EndpointErrors("sink", spec.sink, SINK_TYPES)
    IN  IF ~parsed.ok THEN Err(<<Msg("YAML parse error", <<>>)>>)
        ELSE IF spec = None THEN missing_parent(e2, "spec is required")
        ELSE IF spec.source = None THEN missing_parent(e2, "spec.source is required")
        ELSE IF spec.sink = None THEN missing_parent(e2, "spec.sink is required")
        ELSE IF e4 = <<>> THEN Ok(<<>>) ELSE Err(e4)

validate_dataflow_manifest(config_yaml) ==
    LET parsed == ParsedDataFlow(config_yaml)
        e1 == IF parsed.v.api_version # JStr(DATAFLOW_API_VERSION)
              THEN <<Msg("apiVersion must be", <<DATAFLOW_API_VERSION>>)>> ELSE <<>>
        e2 == e1 \o (IF parsed.v.kind # JStr(DATAFLOW_KIND)
                     THEN <<Msg("kind must be", <<DATAFLOW_KIND>>)>> ELSE <<>>)
        spec == parsed.v.spec
        e3 == e2 \o EndpointErrors("source", spec.source, SOURCE_TYPES)
        e4 == e3 \o EndpointErrors("sink", spec.sink, SINK_TYPES)
    IN  IF ~parsed.ok THEN Err(<<Msg("YAML parse error", <<>>)>>)
        ELSE IF spec = None THEN missing_parent(e2, "spec is required")
        ELSE IF spec.source = None THEN missing_parent(e2, "spec.source is required")
        ELSE IF spec.sink = None THEN missing_parent(e2, "spec.sink is required")
        ELSE IF e4 = <<>> THEN Ok(<<>>) ELSE Err(e4)

(***************************************************************************)
(* src/tools/kafka_connect.rs: string literals                             *)
(***************************************************************************)
KEY_CONNECTOR_CLASS == <<"c","o","n","n","e","c","t","o","r",".","c","l","a","s","s">>

KEY_BOOTSTRAP_SERVERS == <<"b","o","o","t","s","t","r","a","p",".","s","e","r","v","e","r","s">>

KEY_TOPICS == <<"t","o","p","i","c","s">>

KEY_TOPIC == <<"t","o","p","i","c">>

KEY_GROUP_ID == <<"g","r","o","u","p",".","i","d">>

KEY_CONSUMER_GROUP == <<"c","o","n","s","u","m","e","r",".","g","r","o","u","p">>

KEY_VALUE_CONVERTER == <<"v","a","l","u","e",".","c","o","n","v","e","r","t","e","r">>

KEY_SCHEMA_REGISTRY_URL == <<"s","c","h","e","m","a",".","r","e","g","i","s","t","r","y",".","u","r","l">>

KEY_CONNECTION_URL == <<"c","o","n","n","e","c","t","i","o","n",".","u","r","l">>

KEY_TABLE_NAME_FORMAT == <<"t","a","b","l","e",".","n","a","m","e",".","f","o","r","m","a","t">>

AVRO_CONVERTER == <<"i","o",".","c","o","n","f","l","u","e","n","t",".","c","o","n","n","e","c","t",".","a","v","r","o",".","A","v","r","o","C","o","n","v","e","r","t","e","r">>

DEFAULT_INPUT_TOPIC == <<"i","n","p","u","t","-","t","o","p","i","c">>

DEFAULT_OUTPUT_TOPIC == <<"o","u","t","p","u","t","-","t","o","p","i","c">>

DEFAULT_BROKER == <<"l","o","c","a","l","h","o","s","t",":","9","0","9","2">>

DEFAULT_CONNECTION_STRING == <<"p","o","s","t","g","r","e","s",":","/","/","u","s","e","r",":","p","a","s","s","@","l","o","c","a","l","h","o","s","t",":","5","4","3","2","/","d","b">>

DEFAULT_TABLE == <<"o","u","t","p","u","t","_","t","a","b","l","e">>

DEFAULT_MIGRATE_NAME == <<"d","a","t","a","f","l","o","w","-","f","r","o","m","-","c","o","n","n","e","c","t">>

UNKNOWN_CLASS == <<"u","n","k","n","o","w","n">>

UNNAMED == <<"?">>

W_DEBEZIUM == <<"d","e","b","e","z","i","u","m">>

W_MYSQL == <<"m","y","s","q","l">>

W_CDC == <<"c","d","c">>

W_JDBC == <<"j","d","b","c">>

W_POSTGRES == <<"p","o","s","t","g","r","e","s">>

W_SINK == <<"s","i","n","k">>

W_SOURCE == <<"s","o","u","r","c","e">>

W_KAFKA == <<"k","a","f","k","a">>

(***************************************************************************)
(* src/tools/kafka_connect.rs                                              *)
(***************************************************************************)
\* HashMap<String, String>: the entries <<key, value>> in the order this map
\* iterates them, which the hasher fixes when the map is built
ConfigMap(entries) == [t |-> "map", entries |-> entries]

\* the orders a HashMap holding these entries may iterate them in
IterationOrders(entries) ==
    {[k \in 1..Len(entries) |-> entries[p[k]]] : p \in Permutations(1..Len(entries))}

\* de_option_config with a missing config read as the empty map
de_option_config_default(v) ==
    IF v.t = "none" THEN {[ok |-> TRUE, v |-> ConfigMap(<<>>)]}
    ELSE IF v.t # "obj" \/ \E n \in 1..Len(v.o) : v.o[n][2].t # "chars" THEN {Failed}
    ELSE {[ok |-> TRUE, v |-> ConfigMap(e)] :
            e \in IterationOrders([n \in 1..Len(v.o) |-> <<v.o[n][1], v.o[n][2].c>>])}

\* Option<HashMap<String, String>>: an object all of whose values are strings
de_option_config(v) ==
    IF v.t = "none" THEN {[ok |-> TRUE, v |-> None]}
    ELSE IF v.t # "obj" \/ \E n \in 1..Len(v.o) : v.o[n][2].t # "chars" THEN {Failed}
    ELSE {[ok |-> TRUE, v |-> ConfigMap(e)] :
            e \in IterationOrders([n \in 1..Len(v.o) |-> <<v.o[n][1], v.o[n][2].c>>])}

\* serde_json::from_value::<KafkaConnectConnector>: the connectors it may build
KafkaConnectConnector(item) ==
    IF item.t # "obj" THEN {Failed}
    ELSE LET name == de_option_string(Field(item.o, "name"))
         IN  IF ~name.ok THEN {Failed}
             ELSE {IF config.ok THEN [ok |-> TRUE, v |-> [name |-> name.v, config |-> config.v]]
                   ELSE Failed : config \in de_option_config(Field(item.o, "config"))}

RECURSIVE ConnectorsOf(_)
ConnectorsOf(items) ==
    IF items = <<>> THEN {[ok |-> TRUE, v |-> <<>>]}
    ELSE {IF c.ok /\ rest.ok THEN [ok |-> TRUE, v |-> <<c.v>> \o rest.v] ELSE Failed :
            c \in KafkaConnectConnector(Head(items)), rest \in ConnectorsOf(Tail(items))}

\* the results parse_input may return: results, since the iteration order of
\* each config map is not fixed by the text
parse_input(json) ==
    LET v == json_from_str_value(json)
    IN  IF ~v.ok THEN {[ok |-> FALSE, v |-> <<>>, error |-> "Invalid JSON"]}
        ELSE IF v.v.t = "arr"
        THEN {IF cs.ok THEN [ok |-> TRUE, v |-> cs.v, error |-> ""]
              ELSE [ok |-> FALSE, v |-> <<>>, error |-> "Connector item invalid"] :
                cs \in ConnectorsOf(v.v.a)}
        ELSE {IF c.ok THEN [ok |-> TRUE, v |-> <<c.v>>, error |-> ""]
              ELSE [ok |-> FALSE, v |-> <<>>, error |-> "Invalid connector"] :
                c \in KafkaConnectConnector(v.v)}

\* an exact key, else the first entry in iteration order whose lowercased key
\* is the lowercased key asked for
get(config, key) ==
    LET e == config.entries
        exact == {n \in 1..Len(e) : e[n][1] = key}
        folded == {n \in 1..Len(e) : to_lowercase(e[n][1]) = to_lowercase(key)}
    IN  IF exact # {} THEN JChars(e[CHOOSE n \in exact : TRUE][2])
        ELSE IF folded # {} THEN JChars(e[CHOOSE n \in folded : \A m \in folded : n <= m][2])
        ELSE None

is_whitespace(c) == c \in {" ", LineFeed}

RECURSIVE trim_start(_)
trim_start(s) == IF s # <<>> /\ is_whitespace(Head(s)) THEN trim_start(Tail(s)) ELSE s

RECURSIVE trim_end(_)
trim_end(s) ==
    IF s # <<>> /\ is_whitespace(s[Len(s)]) THEN trim_end(SubSeq(s, 1, Len(s) - 1)) ELSE s

trim(s) == trim_end(trim_start(s))

\* str::split(sep): the pieces between the separators, empty pieces included
RECURSIVE split(_, _)
split(s, sep) ==
    IF \A k \in 1..Len(s) : s[k] # sep THEN <<s>>
    ELSE LET k == CHOOSE j \in 1..Len(s) : s[j] = sep /\ \A m \in 1..(j - 1) : s[m] # sep
         IN  <<SubSeq(s, 1, k - 1)>> \o split(SubSeq(s, k + 1, Len(s)), sep)

\* brokers_from_bootstrap_servers without the trim of each entry
brokers_from_bootstrap_servers_untrimmed(s) ==
    SelectSeq(split(s, ","), LAMBDA x : x # <<>>)

brokers_from_bootstrap_servers(s) ==
    SelectSeq([k \in 1..Len(split(s, ",")) |-> trim(split(s, ",")[k])], LAMBDA x : x # <<>>)

\* connector_kind with the kafka sink rule tried before the jdbc/postgres rule
connector_kind_kafka_sink_first(connector_class) ==
    LET c == to_lowercase(connector_class)
    IN  IF contains(c, W_DEBEZIUM) \/ (contains(c, W_MYSQL) /\ contains(c, W_CDC))
        THEN <<"unsupported", "debezium">>
        ELSE IF contains(c, W_SINK) /\ contains(c, W_KAFKA) THEN <<"sink", "kafka">>
        ELSE IF (contains(c, W_JDBC) \/ contains(c, W_POSTGRES)) /\ contains(c, W_SINK)
        THEN <<"sink", "postgresql">>
        ELSE IF contains(c, W_SOURCE) /\ contains(c, W_KAFKA) THEN <<"source", "kafka">>
        ELSE IF contains(c, W_SOURCE) THEN <<"source", "kafka">>
        ELSE IF contains(c, W_SINK) THEN <<"sink", "kafka">>
        ELSE <<"unknown", "unknown">>

connector_kind(connector_class) ==
    LET c == to_lowercase(connector_class)
    IN  IF contains(c, W_DEBEZIUM) \/ (contains(c, W_MYSQL) /\ contains(c, W_CDC))
        THEN <<"unsupported", "debezium">>
        ELSE IF (contains(c, W_JDBC) \/ contains(c, W_POSTGRES)) /\ contains(c, W_SINK)
        THEN <<"sink", "postgresql">>
        ELSE IF contains(c, W_SINK) /\ contains(c, W_KAFKA) THEN <<"sink", "kafka">>
        ELSE IF contains(c, W_SOURCE) /\ contains(c, W_KAFKA) THEN <<"source", "kafka">>
        ELSE IF contains(c, W_SOURCE) THEN <<"source", "kafka">>
        ELSE IF contains(c, W_SINK) THEN <<"sink", "kafka">>
        ELSE <<"unknown", "unknown">>

\* Option::or_else and Option::unwrap_or_else on looked-up strings
OrElse(a, b) == IF a # None THEN a ELSE b

UnwrapOr(a, d) == IF a # None THEN a.c ELSE d

BrokersOf(config) ==
    LET bs == get(config, KEY_BOOTSTRAP_SERVERS)
        brokers == IF bs # None THEN brokers_from_bootstrap_servers(bs.c) ELSE <<>>
    IN  JArr([k \in 1..Len(brokers) |-> JChars(brokers[k])])

\* a migration note: its fixed wording and the strings formatted into it
Note(note, args) == [note |-> note, args |-> args]

map_kafka_source(config) ==
    LET topic == UnwrapOr(OrElse(get(config, KEY_TOPICS), get(config, KEY_TOPIC)),
                          DEFAULT_INPUT_TOPIC)
        consumer_group == OrElse(get(config, KEY_GROUP_ID), get(config, KEY_CONSUMER_GROUP))
        kafka0 == insert(insert(<<>>, "brokers", BrokersOf(config)), "topic", JChars(topic))
        kafka1 == IF consumer_group # None
                  THEN insert(kafka0, "consumerGroup", consumer_group) ELSE kafka0
        url == get(config, KEY_SCHEMA_REGISTRY_URL)
        kafka == IF get(config, KEY_VALUE_CONVERTER) = JChars(AVRO_CONVERTER) /\ url # None
                 THEN insert(insert(kafka1, "schemaRegistry", JObj(insert(<<>>, "url", url))),
                             "format", JStr("avro"))
                 ELSE kafka1
    IN  [spec |-> insert(insert(<<>>, "type", JStr("kafka")), "kafka", JObj(kafka)),
         notes |-> <<>>]

map_kafka_sink(config) ==
    LET topic == UnwrapOr(OrElse(get(config, KEY_TOPICS), get(config, KEY_TOPIC)),
                          DEFAULT_OUTPUT_TOPIC)
        kafka == insert(insert(<<>>, "brokers", BrokersOf(config)), "topic", JChars(topic))
    IN  [spec |-> insert(insert(<<>>, "type", JStr("kafka")), "kafka", JObj(kafka)),
         notes |-> <<>>]

\* map_jdbc_sink with the note whenever topics is present
map_jdbc_sink_note_on_topics(config) ==
    LET connection_string == UnwrapOr(get(config, KEY_CONNECTION_URL), DEFAULT_CONNECTION_STRING)
        table == UnwrapOr(OrElse(get(config, KEY_TABLE_NAME_FORMAT), get(config, KEY_TOPICS)),
                          DEFAULT_TABLE)
        notes == IF get(config, KEY_TOPICS) # None
                 THEN <<Note("Table name derived from topics", <<>>)>> ELSE <<>>
        postgresql == insert(insert(<<>>, "connectionString", JChars(connection_string)),
                             "table", JChars(table))
    IN  [spec |-> insert(insert(<<>>, "type", JStr("postgresql")), "postgresql", JObj(postgresql)),
         notes |-> notes]

map_jdbc_sink(config) ==
    LET connection_string == UnwrapOr(get(config, KEY_CONNECTION_URL), DEFAULT_CONNECTION_STRING)
        table == UnwrapOr(OrElse(get(config, KEY_TABLE_NAME_FORMAT), get(config, KEY_TOPICS)),
                          DEFAULT_TABLE)
        notes == IF get(config, KEY_TABLE_NAME_FORMAT) = None /\ get(config, KEY_TOPICS) # None
                 THEN <<Note("Table name derived from topics", <<>>)>> ELSE <<>>
        postgresql == insert(insert(<<>>, "connectionString", JChars(connection_string)),
                             "table", JChars(table))
    IN  [spec |-> insert(insert(<<>>, "type", JStr("postgresql")), "postgresql", JObj(postgresql)),
         notes |-> notes]

\* the wording of the two notes that hold strings of the input, lines 154 and 162
NOT_MAPPED_1 ==
    <<"C","o","n","n","e","c","t","o","r"," ","'">>

NOT_MAPPED_2 ==
    <<"'"," ","(","c","l","a","s","s",":"," ">>

NOT_MAPPED_3 ==
    <<")"," ","i","s"," ","n","o","t"," ","a","u","t","o","-","m","a","p","p","e","d",".",
      " ","F","o","r"," ","C","D","C"," ","(","e",".","g","."," ","D","e","b","e","z","i",
      "u","m",")",","," ","u","s","e"," ","K","a","f","k","a"," ","a","s"," ","s","o","u",
      "r","c","e"," ","i","n"," ","D","a","t","a","F","l","o","w"," ","i","f"," ","t","h",
      "e"," ","o","u","t","p","u","t"," ","i","s"," ","a","l","r","e","a","d","y"," ","i",
      "n"," ","a"," ","K","a","f","k","a"," ","t","o","p","i","c",".">>

UNKNOWN_1 ==
    <<"U","n","k","n","o","w","n"," ","c","o","n","n","e","c","t","o","r"," ","c","l","a",
      "s","s"," ","'">>

UNKNOWN_2 ==
    <<"'",";"," ","m","a","n","u","a","l"," ","m","i","g","r","a","t","i","o","n"," ","r",
      "e","q","u","i","r","e","d",".">>

\* format!: the characters of a note that holds strings of the input
NoteChars(n) ==
    IF n.note = "is not auto-mapped"
    THEN NOT_MAPPED_1 \o n.args[1] \o NOT_MAPPED_2 \o n.args[2] \o NOT_MAPPED_3
    ELSE IF n.note = "Unknown connector class; manual migration required"
    THEN UNKNOWN_1 \o n.args[1] \o UNKNOWN_2
    ELSE <<>>

\* the names of the keys ParsedDataFlow reads; any other key is one it ignores
KeyName(key) ==
    IF key = <<"a","p","i","V","e","r","s","i","o","n">> THEN "apiVersion"
    ELSE IF key = <<"k","i","n","d">> THEN "kind"
    ELSE IF key = <<"m","e","t","a","d","a","t","a">> THEN "metadata"
    ELSE IF key = <<"s","p","e","c">> THEN "spec"
    ELSE "other"

\* what a YAML reader makes of one line of characters: a blank line, a
\* comment, an entry "key: plain scalar" or "key:", and otherwise text that is
\* no entry of a mapping
yaml_line(line) ==
    LET body == trim(line)
        lead == Len(trim_end(line)) - Len(body)
        colons == {k \in 1..Len(body) : body[k] = ":" /\ (k = Len(body) \/ body[k + 1] = " ")}
        first == CHOOSE k \in colons : \A j \in colons : k <= j
        value == trim(SubSeq(body, first + 1, Len(body)))
    IN  IF body = <<>> THEN BlankLine
        ELSE IF body[1] = "#" THEN CommentLine([text |-> body])
        ELSE IF colons = {} \/ Cardinality(colons) > 1 THEN PlainLine(body)
        ELSE IF first = 1 \/ (value # <<>> /\ value[1] \in {"'", "\"", "[", "{", "&", "*", "!", "|", ">"})
        THEN PlainLine(body)
        ELSE EntryLine(lead \div 2, KeyName(SubSeq(body, 1, first - 1)),
                       IF value = <<>> THEN Header ELSE JChars(value))

\* lines 232-234: format!("# - {}\n", n): the note after "# - " up to its first
\* line feed is a comment; what follows a line feed are lines of their own
NoteLines(n) ==
    IF \A a \in 1..Len(n.args) : LineFeed \notin RangeOf(n.args[a])
    THEN <<CommentLine([note |-> n])>>
    ELSE LET pieces == split(NoteChars(n), LineFeed)
         IN  <<CommentLine([note |-> n])>>
             \o [k \in 1..(Len(pieces) - 1) |-> yaml_line(pieces[k + 1])]

RECURSIVE NotesLines(_)
NotesLines(notes) ==
    IF notes = <<>> THEN <<>> ELSE NoteLines(Head(notes)) \o NotesLines(Tail(notes))

\* the default source and sink blocks of lines 197-204 and 211-218
default_source ==
    insert(insert(<<>>, "type", JStr("kafka")), "kafka",
           JObj(insert(insert(<<>>, "brokers", JArr(<<JChars(DEFAULT_BROKER)>>)),
                       "topic", JChars(DEFAULT_INPUT_TOPIC))))

default_sink ==
    insert(insert(<<>>, "type", JStr("kafka")), "kafka",
           JObj(insert(insert(<<>>, "brokers", JArr(<<JChars(DEFAULT_BROKER)>>)),
                       "topic", JChars(DEFAULT_OUTPUT_TOPIC))))

NoSourceNote == Note("No supported source connector found", <<>>)

NoSinkNote == Note("No supported sink connector found", <<>>)

\* the name of the manifest: the first connector's name, else the default
ManifestName(cs) ==
    IF cs # <<>> /\ cs[1].name # None THEN cs[1].name.c ELSE DEFAULT_MIGRATE_NAME

\* lines 193-206: [block, notes]: the source block of the manifest and the notes
source_block(source, notes) ==
    IF source # None THEN [block |-> source.o, notes |-> notes]
    ELSE [block |-> default_source, notes |-> Append(notes, NoSourceNote)]

\* sink_block without the note for the missing sink
sink_block_without_note(sink, notes) ==
    IF sink # None THEN [block |-> sink.o, notes |-> notes]
    ELSE [block |-> default_sink, notes |-> notes]

\* lines 207-220: the same for the sink
sink_block(sink, notes) ==
    IF sink # None THEN [block |-> sink.o, notes |-> notes]
    ELSE [block |-> default_sink, notes |-> Append(notes, NoSinkNote)]

\* lines 183-238: what migrate returns once every connector is processed
MigrateOutput(cs, source, sink, notes) ==
    LET metadata == insert(<<>>, "name", JChars(sanitize_name(ManifestName(cs))))
        so == source_block(source, notes)
        si == sink_block(sink, so.notes)
        spec == insert(insert(<<>>, "source", JObj(so.block)), "sink", JObj(si.block))
        top == insert(insert(insert(insert(<<>>,
                   "apiVersion", JStr(DATAFLOW_API_VERSION)),
                   "kind", JStr(DATAFLOW_KIND)),
                   "metadata", JObj(metadata)),
                   "spec", JObj(spec))
    IN  Ok(<<CommentLine([generated_from_connect |-> TRUE])>>
           \o (IF si.notes # <<>>
               THEN <<CommentLine([notes_header |-> TRUE])>>
                    \o NotesLines(si.notes)
               ELSE <<>>)
           \o <<BlankLine>>
           \o yaml_to_string(top, 0))

(***************************************************************************)
(* Requests: the inputs the tools are called with                          *)
(***************************************************************************)
SeqsUpTo(S, n) == UNION {[1..k -> S] : k \in 0..n}

TypeInputs == {"kafka", "postgresql", "trino", "clickhouse"}

ConfigTextInputs ==
    {None,
     JsonText(JObj(<<<<"topic", JStr("events")>>>>)),
     MalformedJson,
     JsonText(JArr(<<JNum(1)>>))}

TimestampTransformation == JObj(<<<<"type", JStr("timestamp")>>>>)

FlattenTransformation == JObj(<<<<"type", JStr("flatten")>>>>)

TransformationsInputs ==
    {None,
     MalformedJson,
     JsonText(JArr(<<>>)),
     JsonText(JArr(<<TimestampTransformation, FlattenTransformation>>)),
     JsonText(FlattenTransformation),
     JsonText(JNum(1))}

NameInputs == {None, JChars(<<"m","y","-","f","l","o","w">>), JChars(<<"M","y"," ","F","l","o","w">>)}

NamespaceInputs == {None, JStr("prod")}

\* the lines a description may consist of: plain words, or words that read as
\* a mapping entry
DescriptionLineInputs == {PlainLine("Kafka to PostgreSQL"), EntryLine(0, "kind", JStr("Other"))}

DescriptionInputs ==
    {None} \cup {[t |-> "text", lines |-> ls] :
                   ls \in SeqsUpTo(DescriptionLineInputs, MaxDescriptionLines) \ {<<>>}}

GenerateRequests ==
    [tool : {"generate"}, description : DescriptionInputs,
     source_type : TypeInputs, sink_type : TypeInputs,
     source_config : ConfigTextInputs, sink_config : ConfigTextInputs,
     transformations : TransformationsInputs, name : NameInputs, namespace : NamespaceInputs]

\* manifests to validate: every choice of apiVersion, kind, spec, source and sink
StringInputs(right) == {None, JStr(right), JStr("other")}

BlockInputs == {<<>>, <<"kafka">>, <<"postgresql">>, <<"trino">>, <<"clickhouse">>,
                <<"kafka", "clickhouse">>}

EndpointTypeInputs == {None, JStr("kafka"), JStr("postgresql"), JStr("trino"),
                       JStr("clickhouse"), JStr("mysql")}

\* a mapping with the entries whose value is not None
Entries(o) == SelectSeq(o, LAMBDA e : e[2] # None)

EndpointInputs ==
    {None} \cup {JObj(Entries(<<<<"type", ty>>>>) \o [k \in 1..Len(bs) |-> <<bs[k], JObj(<<>>)>>]) :
                   ty \in EndpointTypeInputs, bs \in BlockInputs}

SpecInputs ==
    {None} \cup {JObj(Entries(<<<<"source", so>>, <<"sink", si>>>>)) :
                   so \in EndpointInputs, si \in EndpointInputs}

ManifestInputs ==
    {Entries(<<<<"apiVersion", a>>, <<"kind", k>>,
               <<"metadata", JObj(<<<<"name", JStr("test")>>>>)>>, <<"spec", sp>>>>) :
       a \in StringInputs(DATAFLOW_API_VERSION), k \in StringInputs(DATAFLOW_KIND), sp \in SpecInputs}

ValidateRequests ==
    [tool : {"validate"},
     config : {yaml_to_string(m, 0) : m \in ManifestInputs}
              \cup {<<PlainLine("not a manifest")>>,
                    <<EntryLine(0, "kind", JStr(DATAFLOW_KIND)), EntryLine(0, "kind", JStr(DATAFLOW_KIND))>>}]

\* connector classes, one or more for each way connector_kind can answer
CLASS_JDBC_SINK == <<"i","o",".","J","d","b","c","S","i","n","k","C","o","n","n","e","c","t","o","r">>

CLASS_KAFKA_SOURCE == <<"S","o","m","e","K","a","f","k","a","S","o","u","r","c","e">>

CLASS_KAFKA_SINK == <<"K","a","f","k","a","S","i","n","k">>

CLASS_DEBEZIUM == <<"i","o",".","d","e","b","e","z","i","u","m",".","M","y","S","q","l","S","o","u","r","c","e">>

\* a class name of two lines
CLASS_TWO_LINES == <<"X", LineFeed, "k","i","n","d",":"," ","Y">>

CLASS_UNKNOWN == <<"U","n","k","n","o","w","n","C","o","n","n","e","c","t","o","r">>

KEY_CONNECTOR_CLASS_TITLE == <<"C","o","n","n","e","c","t","o","r",".","C","l","a","s","s">>

KEY_CONNECTOR_CLASS_UPPER == <<"C","O","N","N","E","C","T","O","R",".","C","L","A","S","S">>

VALUE_BROKERS == <<"b","1",":","9","0","9","2",","," ","b","2",":","9","0","9","2",",">>

VALUE_TOPIC == <<"e","v","e","n","t","s">>

ConfigInputs ==
    {None,
     JObj(<<>>),
     JObj(<<<<KEY_CONNECTOR_CLASS, JChars(CLASS_JDBC_SINK)>>, <<KEY_TOPICS, JChars(VALUE_TOPIC)>>>>),
     JObj(<<<<KEY_CONNECTOR_CLASS, JChars(CLASS_KAFKA_SOURCE)>>, <<KEY_BOOTSTRAP_SERVERS, JChars(VALUE_BROKERS)>>>>),
     JObj(<<<<KEY_CONNECTOR_CLASS, JChars(CLASS_KAFKA_SINK)>>, <<KEY_TOPIC, JChars(VALUE_TOPIC)>>>>),
     JObj(<<<<KEY_CONNECTOR_CLASS, JChars(CLASS_DEBEZIUM)>>>>),
     JObj(<<<<KEY_CONNECTOR_CLASS, JChars(CLASS_UNKNOWN)>>>>),
     JObj(<<<<KEY_CONNECTOR_CLASS, JChars(CLASS_TWO_LINES)>>>>),
     JObj(<<<<KEY_CONNECTOR_CLASS_TITLE, JChars(CLASS_KAFKA_SOURCE)>>,
            <<KEY_CONNECTOR_CLASS_UPPER, JChars(CLASS_JDBC_SINK)>>>>)}

ConnectorNameInputs == {None, JChars(<<"M","y","_","C","o","n","n","e","c","t","o","r","-">>)}

\* the elements of the input: connector objects, and one that is no connector
ConnectorInputs ==
    {JObj(Entries(<<<<"name", n>>, <<"config", c>>>>)) : n \in ConnectorNameInputs, c \in ConfigInputs}
    \cup {JNum(1)}

MigrateRequests ==
    [tool : {"migrate"},
     kafka_connect_config :
        {MalformedJson}
        \cup {JsonText(c) : c \in ConnectorInputs}
        \cup {JsonText(JArr(cs)) : cs \in SeqsUpTo(ConnectorInputs, MaxConnectors)}]

\* class names for connector_kind: every set of the words it looks for, in
\* either order, in either case, with filler between the words
WordNames == <<"debezium", "mysql", "cdc", "jdbc", "postgres", "sink", "source", "kafka">>

WordChars ==
    [debezium |-> W_DEBEZIUM, mysql |-> W_MYSQL, cdc |-> W_CDC, jdbc |-> W_JDBC,
     postgres |-> W_POSTGRES, sink |-> W_SINK, source |-> W_SOURCE, kafka |-> W_KAFKA]

to_uppercase(s) ==
    [k \in 1..Len(s) |-> IF s[k] \in RangeOf(LowerChars)
                         THEN UpperChars[CHOOSE j \in 1..Len(LowerChars) : LowerChars[j] = s[k]]
                         ELSE s[k]]

Filler(n) == [k \in 1..n |-> "x"] \o <<".">>

RECURSIVE JoinWords(_, _, _)
JoinWords(order, present, pad) ==
    IF order = <<>> THEN Filler(pad)
    ELSE (IF Head(order) \in present THEN Filler(pad) \o WordChars[Head(order)] ELSE <<>>)
         \o JoinWords(Tail(order), present, pad)

ClassName(present, reversed, upper, pad) ==
    LET order == IF reversed THEN [k \in 1..Len(WordNames) |-> WordNames[Len(WordNames) + 1 - k]]
                 ELSE WordNames
        lower == JoinWords(order, present, pad)
    IN  IF upper THEN to_uppercase(lower) ELSE lower

ConnectorKindRequests ==
    {[tool |-> "connector_kind", present |-> present,
      connector_class |-> ClassName(present, reversed, upper, pad)] :
        present \in SUBSET RangeOf(WordNames), reversed \in BOOLEAN, upper \in BOOLEAN,
        pad \in 0..MaxPad}

\* configs for the mappers: every key the mapper reads is absent, or present
\* in the mapper's spelling or in upper case
VALUE_BLANK_BROKERS == <<" ", ",", " ">>

VALUE_OTHER_TOPIC == <<"t","2">>

VALUE_GROUP == <<"g","1">>

VALUE_OTHER_GROUP == <<"g","2">>

VALUE_REGISTRY == <<"s","r",":","8","0","8","1">>

VALUE_URL == <<"j","d","b","c",":","p","g","/","d","b">>

VALUE_TABLE == <<"t","b","l">>

OptionalEntry(key, values) ==
    {<<>>} \cup {<<<<k, v>>>> : k \in {key, to_uppercase(key)}, v \in values}

KafkaSourceConfigs ==
    {ConfigMap(b \o t \o u \o g \o c \o a \o r) :
        b \in OptionalEntry(KEY_BOOTSTRAP_SERVERS, {VALUE_BROKERS, VALUE_BLANK_BROKERS}),
        t \in OptionalEntry(KEY_TOPICS, {VALUE_TOPIC}),
        u \in OptionalEntry(KEY_TOPIC, {VALUE_OTHER_TOPIC}),
        g \in OptionalEntry(KEY_GROUP_ID, {VALUE_GROUP}),
        c \in OptionalEntry(KEY_CONSUMER_GROUP, {VALUE_OTHER_GROUP}),
        a \in {<<>>, <<<<KEY_VALUE_CONVERTER, AVRO_CONVERTER>>>>},
        r \in {<<>>, <<<<KEY_SCHEMA_REGISTRY_URL, VALUE_REGISTRY>>>>}}

KafkaSinkConfigs ==
    {ConfigMap(b \o t \o u) :
        b \in OptionalEntry(KEY_BOOTSTRAP_SERVERS, {VALUE_BROKERS, VALUE_BLANK_BROKERS}),
        t \in OptionalEntry(KEY_TOPICS, {VALUE_TOPIC}),
        u \in OptionalEntry(KEY_TOPIC, {VALUE_OTHER_TOPIC})}

JdbcSinkConfigs ==
    {ConfigMap(c \o f \o t) :
        c \in OptionalEntry(KEY_CONNECTION_URL, {VALUE_URL}),
        f \in OptionalEntry(KEY_TABLE_NAME_FORMAT, {VALUE_TABLE}),
        t \in OptionalEntry(KEY_TOPICS, {VALUE_TOPIC})}

MapperRequests ==
    [tool : {"map_kafka_source"}, config : KafkaSourceConfigs]
    \cup [tool : {"map_kafka_sink"}, config : KafkaSinkConfigs]
    \cup [tool : {"map_jdbc_sink"}, config : JdbcSinkConfigs]

\* names for sanitize_name: every string up to MaxNameLen over a lowercase and
\* an uppercase letter, a digit, the hyphen, a character that is replaced, and
\* U+0130
SanitizeChars == {"a", "Z", "7", "-", "_", CapitalIDot}

SanitizeRequests == [tool : {"sanitize_name"}, s : SeqsUpTo(SanitizeChars, MaxNameLen)]

(***************************************************************************)
(* The tools, one call at a time                                           *)
(***************************************************************************)
InitLocals ==
    /\ connectors = <<>>
    /\ idx = 1
    /\ source_spec = None
    /\ sink_spec = None
    /\ all_notes = <<>>

InitWith(requests) ==
    /\ request \in requests
    /\ response = NoResponse
    /\ pc = "call"
    /\ InitLocals

\* main.rs generate_dataflow_manifest: the tool call
Generate ==
    /\ pc = "call"
    /\ request.tool = "generate"
    /\ response' = generate_dataflow_manifest(request)
    /\ pc' = "done"
    /\ UNCHANGED <<request, migrate_locals>>

\* main.rs validate_dataflow_manifest: the tool call
Validate ==
    /\ pc = "call"
    /\ request.tool = "validate"
    /\ response' = validate_dataflow_manifest(request.config)
    /\ pc' = "done"
    /\ UNCHANGED <<request, migrate_locals>>

\* the caller hands the manifest a tool returned to validate_dataflow_manifest
ValidateOutput ==
    /\ pc = "done"
    /\ request.tool \in {"generate", "migrate"}
    /\ response.status = "ok"
    /\ response' = validate_dataflow_manifest(response.value)
    /\ pc' = "validated"
    /\ UNCHANGED <<request, migrate_locals>>

\* a call of connector_kind
Classify ==
    /\ pc = "call"
    /\ request.tool = "connector_kind"
    /\ response' = Ok(connector_kind(request.connector_class))
    /\ pc' = "done"
    /\ UNCHANGED <<request, migrate_locals>>

\* migrate_kafka_connect_to_dataflow, lines 141-145: parse the input
MigrateStart ==
    /\ pc = "call"
    /\ request.tool = "migrate"
    /\ \E parsed \in parse_input(request.kafka_connect_config) :
         IF parsed.ok
         THEN /\ connectors' = parsed.v
              /\ pc' = "loop"
              /\ UNCHANGED response
         ELSE /\ response' = Err(<<Msg(parsed.error, <<>>)>>)
              /\ pc' = "done"
              /\ UNCHANGED connectors
    /\ idx' = 1
    /\ source_spec' = None
    /\ sink_spec' = None
    /\ all_notes' = <<>>
    /\ UNCHANGED request

\* migrate_connector keeping a block that is already set
migrate_connector_first_wins(conn, source, sink, notes) ==
    LET config == conn.config
        connector_class == UnwrapOr(get(config, KEY_CONNECTOR_CLASS), UNKNOWN_CLASS)
        classified == connector_kind(connector_class)
        direction == classified[1]
        kind == classified[2]
        go_on(so, si, ns) == [error |-> "", source_spec |-> so, sink_spec |-> si, all_notes |-> ns]
    IN  IF config = None
        THEN [error |-> "Each connector must have 'config'",
              source_spec |-> source, sink_spec |-> sink, all_notes |-> notes]
        ELSE IF direction = "unsupported" \/ kind = "debezium"
        THEN go_on(source, sink,
                   Append(notes, Note("is not auto-mapped",
                                      <<UnwrapOr(conn.name, UNNAMED), connector_class>>)))
        ELSE IF direction = "unknown"
        THEN go_on(source, sink,
                   Append(notes, Note("Unknown connector class; manual migration required",
                                      <<connector_class>>)))
        ELSE IF direction = "source" /\ kind = "kafka"
        THEN go_on(IF source # None THEN source ELSE JObj(map_kafka_source(config).spec), sink,
                   notes \o map_kafka_source(config).notes)
        ELSE IF direction = "sink" /\ kind = "kafka"
        THEN go_on(source, IF sink # None THEN sink ELSE JObj(map_kafka_sink(config).spec),
                   notes \o map_kafka_sink(config).notes)
        ELSE IF direction = "sink" /\ kind = "postgresql"
        THEN go_on(source, IF sink # None THEN sink ELSE JObj(map_jdbc_sink(config).spec),
                   notes \o map_jdbc_sink(config).notes)
        ELSE go_on(source, sink, notes)

\* migrate_connector mapping an unsupported connector whose class names a
\* source as a kafka source, besides the note
migrate_connector_maps_unsupported(conn, source, sink, notes) ==
    LET config == conn.config
        connector_class == UnwrapOr(get(config, KEY_CONNECTOR_CLASS), UNKNOWN_CLASS)
        classified == connector_kind(connector_class)
        direction == classified[1]
        kind == classified[2]
        go_on(so, si, ns) == [error |-> "", source_spec |-> so, sink_spec |-> si, all_notes |-> ns]
    IN  IF config = None
        THEN [error |-> "Each connector must have 'config'",
              source_spec |-> source, sink_spec |-> sink, all_notes |-> notes]
        ELSE IF direction = "unsupported" \/ kind = "debezium"
        THEN go_on(IF contains(to_lowercase(connector_class), W_SOURCE)
                   THEN JObj(map_kafka_source(config).spec) ELSE source,
                   sink,
                   Append(notes, Note("is not auto-mapped",
                                      <<UnwrapOr(conn.name, UNNAMED), connector_class>>)))
        ELSE IF direction = "unknown"
        THEN go_on(source, sink,
                   Append(notes, Note("Unknown connector class; manual migration required",
                                      <<connector_class>>)))
        ELSE IF direction = "source" /\ kind = "kafka"
        THEN go_on(JObj(map_kafka_source(config).spec), sink,
                   notes \o map_kafka_source(config).notes)
        ELSE IF direction = "sink" /\ kind = "kafka"
        THEN go_on(source, JObj(map_kafka_sink(config).spec),
                   notes \o map_kafka_sink(config).notes)
        ELSE IF direction = "sink" /\ kind = "postgresql"
        THEN go_on(source, JObj(map_jdbc_sink(config).spec),
                   notes \o map_jdbc_sink(config).notes)
        ELSE go_on(source, sink, notes)

\* lines 148-180: the body of the loop for connector conn; error is the
\* message of the early return, "" when the loop goes on
migrate_connector(conn, source, sink, notes) ==
    LET config == conn.config
        connector_class == UnwrapOr(get(config, KEY_CONNECTOR_CLASS), UNKNOWN_CLASS)
        classified == connector_kind(connector_class)
        direction == classified[1]
        kind == classified[2]
        go_on(so, si, ns) == [error |-> "", source_spec |-> so, sink_spec |-> si, all_notes |-> ns]
    IN  IF config = None
        THEN [error |-> "Each connector must have 'config'",
              source_spec |-> source, sink_spec |-> sink, all_notes |-> notes]
        ELSE IF direction = "unsupported" \/ kind = "debezium"
        THEN go_on(source, sink,
                   Append(notes, Note("is not auto-mapped",
                                      <<UnwrapOr(conn.name, UNNAMED), connector_class>>)))
        ELSE IF direction = "unknown"
        THEN go_on(source, sink,
                   Append(notes, Note("Unknown connector class; manual migration required",
                                      <<connector_class>>)))
        ELSE IF direction = "source" /\ kind = "kafka"
        THEN go_on(JObj(map_kafka_source(config).spec), sink,
                   notes \o map_kafka_source(config).notes)
        ELSE IF direction = "sink" /\ kind = "kafka"
        THEN go_on(source, JObj(map_kafka_sink(config).spec),
                   notes \o map_kafka_sink(config).notes)
        ELSE IF direction = "sink" /\ kind = "postgresql"
        THEN go_on(source, JObj(map_jdbc_sink(config).spec),
                   notes \o map_jdbc_sink(config).notes)
        ELSE go_on(source, sink, notes)

\* lines 147-181: one iteration of the loop over the connectors
MigrateConnector ==
    /\ pc = "loop"
    /\ idx <= Len(connectors)
    /\ \E step \in {migrate_connector(connectors[idx], source_spec, sink_spec, all_notes)} :
         /\ source_spec' = step.source_spec
         /\ sink_spec' = step.sink_spec
         /\ all_notes' = step.all_notes
         /\ IF step.error # ""
            THEN /\ response' = Err(<<Msg(step.error, <<>>)>>)
                 /\ pc' = "done"
                 /\ UNCHANGED idx
            ELSE /\ idx' = idx + 1
                 /\ UNCHANGED <<response, pc>>
    /\ UNCHANGED <<request, connectors>>

\* lines 183-238: build the manifest and the notes
MigrateFinish ==
    /\ pc = "loop"
    /\ idx > Len(connectors)
    /\ response' = MigrateOutput(connectors, source_spec, sink_spec, all_notes)
    /\ pc' = "done"
    /\ UNCHANGED <<request, migrate_locals>>

\* a call of map_kafka_source
MapKafkaSource ==
    /\ pc = "call"
    /\ request.tool = "map_kafka_source"
    /\ response' = Ok(map_kafka_source(request.config))
    /\ pc' = "done"
    /\ UNCHANGED <<request, migrate_locals>>

\* a call of map_kafka_sink
MapKafkaSink ==
    /\ pc = "call"
    /\ request.tool = "map_kafka_sink"
    /\ response' = Ok(map_kafka_sink(request.config))
    /\ pc' = "done"
    /\ UNCHANGED <<request, migrate_locals>>

\* a call of map_jdbc_sink
MapJdbcSink ==
    /\ pc = "call"
    /\ request.tool = "map_jdbc_sink"
    /\ response' = Ok(map_jdbc_sink(request.config))
    /\ pc' = "done"
    /\ UNCHANGED <<request, migrate_locals>>

\* a call of sanitize_name
Sanitize ==
    /\ pc = "call"
    /\ request.tool = "sanitize_name"
    /\ response' = Ok(sanitize_name(request.s))
    /\ pc' = "done"
    /\ UNCHANGED <<request, migrate_locals>>

\* a call of sanitize_name on the name the call before returned
SanitizeAgain ==
    /\ pc = "done"
    /\ request.tool = "sanitize_name"
    /\ response' = Ok(sanitize_name(response.value))
    /\ pc' = "again"
    /\ UNCHANGED <<request, migrate_locals>>

\* generate, then validate what it returned
InitGenerate == InitWith(GenerateRequests)

NextGenerate == Generate \/ ValidateOutput

SpecGenerate == InitGenerate /\ [][NextGenerate]_vars

\* validate
InitValidate == InitWith(ValidateRequests)

NextValidate == Validate

SpecValidate == InitValidate /\ [][NextValidate]_vars

\* migrate, then validate what it returned
InitMigrate == InitWith(MigrateRequests)

NextMigrate == MigrateStart \/ MigrateConnector \/ MigrateFinish \/ ValidateOutput

SpecMigrate == InitMigrate /\ [][NextMigrate]_vars

\* main.rs migrate_kafka_connect_to_dataflow: the caller invokes the tool a
\* second time with the same input, keeping the result of the first run
MigrateAgain ==
    /\ pc = "done"
    /\ request.tool = "migrate"
    /\ pc' = "call"
    /\ UNCHANGED <<request, response, migrate_locals>>

\* migrate, run repeatedly on the same input
InitMigrateTwice == InitWith(MigrateRequests)

NextMigrateTwice == MigrateStart \/ MigrateConnector \/ MigrateFinish \/ MigrateAgain

SpecMigrateTwice == InitMigrateTwice /\ [][NextMigrateTwice]_vars

\* connector_kind
InitConnectorKind == InitWith(ConnectorKindRequests)

NextConnectorKind == Classify

SpecConnectorKind == InitConnectorKind /\ [][NextConnectorKind]_vars

\* the three mappers, each on a config of its own
InitMappers == InitWith(MapperRequests)

NextMappers == MapKafkaSource \/ MapKafkaSink \/ MapJdbcSink

SpecMappers == InitMappers /\ [][NextMappers]_vars

\* sanitize_name, and sanitize_name of its result
InitSanitize == InitWith(SanitizeRequests)

NextSanitize == Sanitize \/ SanitizeAgain

SpecSanitize == InitSanitize /\ [][NextSanitize]_vars

(***************************************************************************)
(* Properties                                                              *)
(***************************************************************************)
RecognizedTypes == {"kafka", "postgresql", "trino"}

RecognizedList == <<"kafka", "postgresql", "trino">>

IsObjectText(text) == text.wf /\ text.v.t = "obj"

IsArrayText(text) == text.wf /\ text.v.t = "arr"

\* the value at a path of keys in a parsed document, None where the path ends early
RECURSIVE Path(_, _)
Path(v, path) ==
    IF path = <<>> THEN v
    ELSE IF v.t = "obj" THEN Path(Field(v.o, Head(path)), Tail(path))
    ELSE None

Document(text) == JObj(yaml_parse(text).o)

\* the serialised manifest inside a returned text: the lines from the last
\* top-level apiVersion entry on, whatever the comment header above it holds
Body(text) ==
    LET starts == {k \in 1..Len(text) : text[k].key = "apiVersion" /\ text[k].ind = 0}
    IN  IF starts = {} THEN text
        ELSE SubSeq(text, CHOOSE k \in starts : \A j \in starts : j <= k, Len(text))

Manifest(text) == Document(Body(text))

IsSanitized(c) ==
    /\ \A k \in 1..Len(c) : c[k] \in RangeOf(LowerChars) \cup DigitChars \cup {"-"}
    /\ c # <<>> => (c[1] # "-" /\ c[Len(c)] # "-")

Generated == pc = "done" /\ request.tool = "generate"

Validated == pc = "done" /\ request.tool = "validate"

Migrated == pc = "done" /\ request.tool = "migrate"

\* C1: whenever generate_dataflow_manifest returns Ok, for any source and sink
\* type in {kafka, postgresql, trino} and any optional arguments, validating the
\* returned text returns Ok.
C1_GeneratedManifestValidates ==
    (pc = "validated" /\ request.tool = "generate") => response.status = "ok"

\* the ordered rules of the classifier over the set of words present
Rules(present) ==
    <<[hit |-> "debezium" \in present \/ {"mysql", "cdc"} \subseteq present,
       result |-> <<"unsupported", "debezium">>],
      [hit |-> ("jdbc" \in present \/ "postgres" \in present) /\ "sink" \in present,
       result |-> <<"sink", "postgresql">>],
      [hit |-> {"sink", "kafka"} \subseteq present, result |-> <<"sink", "kafka">>],
      [hit |-> {"source", "kafka"} \subseteq present, result |-> <<"source", "kafka">>],
      [hit |-> "source" \in present, result |-> <<"source", "kafka">>],
      [hit |-> "sink" \in present, result |-> <<"sink", "kafka">>],
      [hit |-> TRUE, result |-> <<"unknown", "unknown">>]>>

FirstMatch(present) ==
    LET rules == Rules(present)
    IN  rules[CHOOSE k \in 1..Len(rules) :
                  rules[k].hit /\ \A j \in 1..(k - 1) : ~rules[j].hit].result

\* C2: connector_kind answers with the first matching rule, in the stated
\* order, for every set of the eight words present in the class name; a class
\* with jdbc, kafka and sink (and neither debezium nor mysql+cdc) is
\* (sink, postgresql).
C2_OrderedFirstMatch ==
    (pc = "done" /\ request.tool = "connector_kind") =>
        /\ response.value = FirstMatch(request.present)
        /\ ({"jdbc", "kafka", "sink"} \subseteq request.present
            /\ "debezium" \notin request.present
            /\ ~({"mysql", "cdc"} \subseteq request.present))
           => response.value = <<"sink", "postgresql">>

C2_Witness ==
    /\ pc = "done" /\ request.tool = "connector_kind"
    /\ {"jdbc", "kafka", "sink"} \subseteq request.present
    /\ response.value = <<"sink", "postgresql">>

\* the elements of the migrate input, as the text gives them
InputItems(req) ==
    LET text == req.kafka_connect_config
    IN  IF ~text.wf THEN <<>> ELSE IF text.v.t = "arr" THEN text.v.a ELSE <<text.v>>

LacksConfig(item) == item.t = "obj" /\ Field(item.o, "config") = None

\* C3: when any connector of the input has no config, migrate returns an error
\* and no manifest, wherever that connector stands and whatever was mapped
\* before it.
C3_MissingConfigFails ==
    (request.tool = "migrate"
     /\ \E k \in 1..Len(InputItems(request)) : LacksConfig(InputItems(request)[k]))
    => /\ pc # "validated"
       /\ response.status # "ok"
       /\ pc = "done" => (response.status = "err" /\ response.value = <<>>)

C3_Witness ==
    /\ Migrated
    /\ Len(InputItems(request)) = 2
    /\ ~LacksConfig(InputItems(request)[1])
    /\ LacksConfig(InputItems(request)[2])
    /\ source_spec # None
    /\ response.status = "err"

\* the migration notes written above a manifest, in order
Notes(text) ==
    LET lines == SelectSeq(text, LAMBDA l : l.val.t = "comment" /\ "note" \in DOMAIN l.val.c)
    IN  [k \in 1..Len(lines) |-> lines[k].val.c.note]

ClassOf(conn) == UnwrapOr(get(conn.config, KEY_CONNECTOR_CLASS), UNKNOWN_CLASS)

MappedTo(direction) ==
    \E k \in 1..Len(connectors) : connector_kind(ClassOf(connectors[k]))[1] = direction

OnlyUnknown ==
    Len(connectors) = 1 /\ connector_kind(ClassOf(connectors[1])) = <<"unknown", "unknown">>

\* C4: migrate writes the default source block and the missing-source note
\* exactly when no connector was mapped to a source, and the same for the sink;
\* for a single connector that matches no rule both defaults are written and
\* the notes are the manual-migration note, the missing-source note and the
\* missing-sink note, in that order.
C4_DefaultsWhenUnmapped ==
    (Migrated /\ response.status = "ok") =>
        LET doc == Manifest(response.value)
            notes == Notes(response.value)
        IN  /\ (NoSourceNote \in RangeOf(notes)) <=> ~MappedTo("source")
            /\ (NoSinkNote \in RangeOf(notes)) <=> ~MappedTo("sink")
            /\ Path(doc, <<"spec", "source">>) =
                 (IF MappedTo("source") THEN source_spec ELSE JObj(default_source))
            /\ Path(doc, <<"spec", "sink">>) =
                 (IF MappedTo("sink") THEN sink_spec ELSE JObj(default_sink))
            /\ OnlyUnknown =>
                 /\ notes = <<Note("Unknown connector class; manual migration required",
                                   <<ClassOf(connectors[1])>>),
                              NoSourceNote, NoSinkNote>>
                 /\ Path(doc, <<"spec", "source">>) = JObj(default_source)
                 /\ Path(doc, <<"spec", "sink">>) = JObj(default_sink)

C4_Witness ==
    /\ Migrated /\ response.status = "ok"
    /\ OnlyUnknown
    /\ Len(Notes(response.value)) = 3

Parses(text) == ParsedDataFlow(text).ok

WrongString(text, key, right) == Field(yaml_parse(text).o, key) # JStr(right)

NoSpec(text) == Field(yaml_parse(text).o, "spec") = None

SpecRequired == Msg("spec is required", <<>>)

\* C5, as claimed: for a text that parses and has no spec the error list is the
\* 'spec is required' error alone, whatever apiVersion and kind are.
C5_OnlySpecError ==
    (Validated /\ Parses(request.config) /\ NoSpec(request.config))
    => response = Err(<<SpecRequired>>)

\* C5, amended: for a text that parses and has no spec, validation ends at the
\* missing spec with the errors collected so far and 'spec is required' last:
\* the apiVersion error if apiVersion is wrong or absent, then the kind error
\* if kind is wrong or absent, then 'spec is required'.
C5_SpecErrorAfterEarlierErrors ==
    (Validated /\ Parses(request.config) /\ NoSpec(request.config))
    => response =
         Err((IF WrongString(request.config, "apiVersion", DATAFLOW_API_VERSION)
              THEN <<Msg("apiVersion must be", <<DATAFLOW_API_VERSION>>)>> ELSE <<>>)
             \o (IF WrongString(request.config, "kind", DATAFLOW_KIND)
                 THEN <<Msg("kind must be", <<DATAFLOW_KIND>>)>> ELSE <<>>)
             \o <<SpecRequired>>)

C5_Witness ==
    /\ Validated /\ Parses(request.config) /\ NoSpec(request.config)
    /\ Len(response.errors) = 3
    /\ response.errors[3] = SpecRequired

AboutSide(error, side) == error.of # <<>> /\ error.of[1] = side

\* C6: with the fixed apiVersion and kind, an endpoint of type clickhouse with a
\* clickhouse sub-block produces no error for that endpoint, and one without
\* the sub-block produces the 'clickhouse is required' error, not a 'type must
\* be one of' error.
C6_ClickhouseAccepted ==
    (Validated /\ Parses(request.config)
     /\ ~WrongString(request.config, "apiVersion", DATAFLOW_API_VERSION)
     /\ ~WrongString(request.config, "kind", DATAFLOW_KIND)
     /\ Path(Document(request.config), <<"spec", "source">>) # None
     /\ Path(Document(request.config), <<"spec", "sink">>) # None)
    => \A side \in {"source", "sink"} :
         Path(Document(request.config), <<"spec", side, "type">>) = JStr("clickhouse")
         => IF Path(Document(request.config), <<"spec", side, "clickhouse">>) # None
            THEN \A k \in 1..Len(response.errors) : ~AboutSide(response.errors[k], side)
            ELSE /\ Msg("is required when type is", <<side, "clickhouse">>)
                      \in RangeOf(response.errors)
                 /\ \A k \in 1..Len(response.errors) :
                      response.errors[k].e # "type must be one of"
                      \/ ~AboutSide(response.errors[k], side)

\* C7: the metadata.name of every manifest generate or migrate returns is
\* sanitized: lowercase alphanumerics and hyphens only, no leading or trailing
\* hyphen.
C7_ManifestNameSanitized ==
    (pc = "done" /\ request.tool \in {"generate", "migrate"} /\ response.status = "ok")
    => IsSanitized(Path(Manifest(response.value), <<"metadata", "name">>).c)

\* C8: generate fails whenever transformations is present and is no JSON array,
\* and on success the spec holds transformations exactly when the argument was
\* a non-empty array, with the elements in the order given.
C8_TransformationsMustBeArray ==
    Generated =>
        /\ (request.transformations # None /\ ~IsArrayText(request.transformations))
           => response.status = "err"
        /\ response.status = "ok" =>
             LET written == Path(Manifest(response.value), <<"spec", "transformations">>)
                 given == request.transformations
             IN  IF given # None /\ IsArrayText(given) /\ given.v.a # <<>>
                 THEN written = given.v
                 ELSE written = None

\* C9: with valid types, a source_config that is present and no JSON object is
\* an error; sink_config never is: an error has another cause, and a
\* sink_config that is no JSON object gives a manifest whose sink[sink_type] is
\* the empty object.
C9_SourceStrictSinkLenient ==
    (Generated /\ request.source_type \in RecognizedTypes
     /\ request.sink_type \in RecognizedTypes) =>
        /\ (request.source_config # None /\ ~IsObjectText(request.source_config))
           => response.status = "err"
        /\ response.status = "err" =>
             \/ (request.source_config # None /\ ~IsObjectText(request.source_config))
             \/ (request.transformations # None /\ ~request.transformations.wf)
        /\ (response.status = "ok" /\ request.sink_config # None
            /\ ~IsObjectText(request.sink_config))
           => Path(Manifest(response.value), <<"spec", "sink", request.sink_type>>) = JObj(<<>>)

C9_Witness ==
    /\ Generated /\ response.status = "ok"
    /\ request.source_config # None
    /\ request.sink_config = MalformedJson
    /\ Path(Manifest(response.value), <<"spec", "sink", request.sink_type>>) = JObj(<<>>)

\* C10: a source_type or sink_type outside {kafka, postgresql, trino} is an
\* error that lists the three types, with no manifest; the types are checked
\* before any configuration is parsed and the source before the sink.
C10_TypeChecksFirst ==
    Generated =>
        /\ request.source_type \notin RecognizedTypes
           => response = Err(<<Msg("source_type must be one of", RecognizedList)>>)
        /\ (request.source_type \in RecognizedTypes /\ request.sink_type \notin RecognizedTypes)
           => response = Err(<<Msg("sink_type must be one of", RecognizedList)>>)

C10_Witness ==
    /\ Generated
    /\ request.source_type \notin RecognizedTypes
    /\ request.sink_type \notin RecognizedTypes
    /\ request.source_config = MalformedJson
    /\ request.transformations = MalformedJson
    /\ response.errors = <<Msg("source_type must be one of", RecognizedList)>>

\* the value a config holds for a key, whatever the case of the key's letters
ValueOf(config, key) ==
    LET hits == {n \in 1..Len(config.entries) : to_lowercase(config.entries[n][1]) = key}
    IN  IF hits = {} THEN None ELSE JChars(config.entries[CHOOSE n \in hits : TRUE][2])

\* the entries between the commas of s, read left to right
RECURSIVE CommaEntries(_, _)
CommaEntries(s, entry) ==
    IF s = <<>> THEN <<entry>>
    ELSE IF Head(s) = "," THEN <<entry>> \o CommaEntries(Tail(s), <<>>)
    ELSE CommaEntries(Tail(s), Append(entry, Head(s)))

\* an entry without the blanks around it
Stripped(entry) ==
    LET solid == {k \in 1..Len(entry) : entry[k] # " "}
    IN  IF solid = {} THEN <<>>
        ELSE SubSeq(entry, CHOOSE k \in solid : \A j \in solid : k <= j,
                           CHOOSE k \in solid : \A j \in solid : j <= k)

ExpectedBrokers(v) ==
    IF v = None THEN <<>>
    ELSE LET entries == CommaEntries(v.c, <<>>)
             kept == SelectSeq([k \in 1..Len(entries) |-> Stripped(entries[k])],
                               LAMBDA e : e # <<>>)
         IN  [k \in 1..Len(kept) |-> JChars(kept[k])]

FirstOf(values) ==
    IF \A k \in 1..Len(values) : values[k] = None THEN None
    ELSE values[CHOOSE k \in 1..Len(values) :
                    values[k] # None /\ \A j \in 1..(k - 1) : values[j] = None]

\* C11: map_kafka_source gives a source of type kafka whose brokers are the
\* comma-separated entries of bootstrap.servers in order, trimmed, empty ones
\* dropped (none when the key is absent), whose topic is topics, else topic,
\* else 'input-topic', and whose consumerGroup is group.id, else
\* consumer.group, and is absent when neither is present.
C11_KafkaSourceMapping ==
    (pc = "done" /\ request.tool = "map_kafka_source") =>
        LET config == request.config
            source == JObj(response.value.spec)
        IN  /\ Path(source, <<"type">>) = JStr("kafka")
            /\ Path(source, <<"kafka", "brokers">>)
                 = JArr(ExpectedBrokers(ValueOf(config, KEY_BOOTSTRAP_SERVERS)))
            /\ Path(source, <<"kafka", "topic">>)
                 = FirstOf(<<ValueOf(config, KEY_TOPICS), ValueOf(config, KEY_TOPIC),
                             JChars(<<"i","n","p","u","t","-","t","o","p","i","c">>)>>)
            /\ Path(source, <<"kafka", "consumerGroup">>)
                 = FirstOf(<<ValueOf(config, KEY_GROUP_ID), ValueOf(config, KEY_CONSUMER_GROUP)>>)

C11_Witness ==
    /\ pc = "done" /\ request.tool = "map_kafka_source"
    /\ ValueOf(request.config, KEY_BOOTSTRAP_SERVERS) = JChars(VALUE_BROKERS)
    /\ ValueOf(request.config, KEY_TOPICS) = None
    /\ ValueOf(request.config, KEY_TOPIC) # None
    /\ ValueOf(request.config, KEY_GROUP_ID) = None
    /\ ValueOf(request.config, KEY_CONSUMER_GROUP) # None
    /\ Path(JObj(response.value.spec), <<"kafka", "brokers">>)
         = JArr(<<JChars(<<"b","1",":","9","0","9","2">>), JChars(<<"b","2",":","9","0","9","2">>)>>)
    /\ Path(JObj(response.value.spec), <<"kafka", "consumerGroup">>) = JChars(VALUE_OTHER_GROUP)

TableNote == Note("Table name derived from topics", <<>>)

\* C12: map_jdbc_sink gives a sink of type postgresql whose connectionString is
\* connection.url, else the placeholder, and whose table is table.name.format,
\* else topics, else the placeholder; it gives the 'Table name derived from
\* topics' note exactly when table.name.format is absent and topics is
\* present, and no other note.
C12_JdbcSinkMapping ==
    (pc = "done" /\ request.tool = "map_jdbc_sink") =>
        LET config == request.config
            sink == JObj(response.value.spec)
            format == ValueOf(config, KEY_TABLE_NAME_FORMAT)
            topics == ValueOf(config, KEY_TOPICS)
        IN  /\ Path(sink, <<"type">>) = JStr("postgresql")
            /\ Path(sink, <<"postgresql", "connectionString">>)
                 = FirstOf(<<ValueOf(config, KEY_CONNECTION_URL), JChars(DEFAULT_CONNECTION_STRING)>>)
            /\ Path(sink, <<"postgresql", "table">>)
                 = FirstOf(<<format, topics, JChars(DEFAULT_TABLE)>>)
            /\ response.value.notes
                 = (IF format = None /\ topics # None THEN <<TableNote>> ELSE <<>>)

C12_Witness ==
    /\ pc = "done" /\ request.tool = "map_jdbc_sink"
    /\ ValueOf(request.config, KEY_CONNECTION_URL) = JChars(VALUE_URL)
    /\ ValueOf(request.config, KEY_TABLE_NAME_FORMAT) = JChars(VALUE_TABLE)
    /\ ValueOf(request.config, KEY_TOPICS) = JChars(VALUE_TOPIC)
    /\ Path(JObj(response.value.spec), <<"postgresql", "table">>) = JChars(VALUE_TABLE)
    /\ response.value.notes = <<>>

\* C13: sanitize_name returns a name in sanitized form unchanged, and
\* sanitizing the result of sanitize_name returns that result, for every input.
C13_SanitizeIdempotent ==
    [][/\ (pc = "call" /\ pc' = "done" /\ request.tool = "sanitize_name"
           /\ IsSanitized(request.s))
          => response'.value = request.s
       /\ (pc = "done" /\ pc' = "again" /\ request.tool = "sanitize_name")
          => response'.value = response.value]_vars

\* C18: every manifest a successful migrate returns passes
\* validate_dataflow_manifest: it has the fixed apiVersion and kind, a source
\* of type kafka with a kafka sub-block and a sink of type kafka or postgresql
\* with the sub-block of that name.
C18_MigratedManifestValidates ==
    /\ (pc = "validated" /\ request.tool = "migrate") => response.status = "ok"
    /\ (Migrated /\ response.status = "ok") =>
         LET doc == Manifest(response.value)
         IN  /\ Path(doc, <<"apiVersion">>) = JStr("dataflow.dataflow.io/v1")
             /\ Path(doc, <<"kind">>) = JStr("DataFlow")
             /\ Path(doc, <<"spec", "source", "type">>) = JStr("kafka")
             /\ Path(doc, <<"spec", "source", "kafka">>) # None
             /\ \E ty \in {"kafka", "postgresql"} :
                  /\ Path(doc, <<"spec", "sink", "type">>) = JStr(ty)
                  /\ Path(doc, <<"spec", "sink", ty>>) # None

\* what a connector is mapped to, None for one that is skipped
MappingOf(conn) ==
    LET kind == connector_kind(ClassOf(conn))
    IN  IF kind = <<"source", "kafka">> THEN JObj(map_kafka_source(conn.config).spec)
        ELSE IF kind = <<"sink", "kafka">> THEN JObj(map_kafka_sink(conn.config).spec)
        ELSE IF kind = <<"sink", "postgresql">> THEN JObj(map_jdbc_sink(conn.config).spec)
        ELSE None

\* the mapping of the last connector of cs classified to the direction
LastMapped(cs, direction) ==
    LET hits == {k \in 1..Len(cs) : connector_kind(ClassOf(cs[k]))[1] = direction}
    IN  IF hits = {} THEN None
        ELSE MappingOf(cs[CHOOSE k \in hits : \A j \in hits : j <= k])

Processed == SubSeq(connectors, 1, idx - 1)

\* C14: after any number of connectors the source block is the mapping of the
\* last connector classified as source and the sink block the mapping of the
\* last one classified as sink, whatever connectors of the other direction
\* stand between them; several connectors of one direction are no error (the
\* only errors are an input that does not parse and a connector without
\* config), and the manifest holds those blocks.
C14_LastWriterWins ==
    request.tool = "migrate" =>
        /\ source_spec = LastMapped(Processed, "source")
        /\ sink_spec = LastMapped(Processed, "sink")
        /\ (Migrated /\ response.status = "err")
           => \/ response.errors[1].e
                   \in {"Invalid JSON", "Connector item invalid", "Invalid connector"}
              \/ connectors[idx].config = None
        /\ (Migrated /\ response.status = "ok")
           => /\ MappedTo("source")
                 => Path(Manifest(response.value), <<"spec", "source">>)
                      = LastMapped(connectors, "source")
              /\ MappedTo("sink")
                 => Path(Manifest(response.value), <<"spec", "sink">>)
                      = LastMapped(connectors, "sink")

C14_Witness ==
    /\ Migrated /\ response.status = "ok"
    /\ Len(connectors) = 2
    /\ connector_kind(ClassOf(connectors[1]))[1] = "sink"
    /\ connector_kind(ClassOf(connectors[2]))[1] = "sink"
    /\ MappingOf(connectors[1]) # MappingOf(connectors[2])
    /\ Path(Manifest(response.value), <<"spec", "sink">>) = MappingOf(connectors[2])

\* C15: the step of the loop on a connector classified unsupported or unknown
\* appends exactly one note and leaves source_spec and sink_spec as they were,
\* and the loop goes on.
C15_SkippedConnectorOnlyNotes ==
    [][(/\ request.tool = "migrate"
        /\ pc = "loop"
        /\ idx <= Len(connectors)
        /\ connectors[idx].config # None
        /\ connector_kind(ClassOf(connectors[idx]))[1] \in {"unsupported", "unknown"})
       => /\ Len(all_notes') = Len(all_notes) + 1
          /\ SubSeq(all_notes', 1, Len(all_notes)) = all_notes
          /\ source_spec' = source_spec
          /\ sink_spec' = sink_spec
          /\ pc' = "loop"
          /\ idx' = idx + 1]_vars

C15_Witness ==
    /\ request.tool = "migrate"
    /\ pc = "loop"
    /\ idx = 3
    /\ connector_kind(ClassOf(connectors[2])) = <<"unsupported", "debezium">>
    /\ contains(to_lowercase(ClassOf(connectors[2])), W_SOURCE)
    /\ source_spec # None
    /\ source_spec = MappingOf(connectors[1])
    /\ Len(all_notes) = 1

\* the check of one endpoint: its type, and the sub-block named after the type
EndpointCheck(doc, side) ==
    LET ty == Path(doc, <<"spec", side, "type">>)
    IN  IF ty.t # "str" \/ ty.s \notin RecognizedTypes
        THEN <<Msg("type must be one of", <<side>> \o RecognizedList)>>
        ELSE IF Path(doc, <<"spec", side, ty.s>>) = None
        THEN <<Msg("is required when type is", <<side, ty.s>>)>>
        ELSE <<>>

\* the violated checks of a text that parses, in the order of the checks
ViolatedChecks(text) ==
    LET doc == Document(text)
        top == (IF WrongString(text, "apiVersion", DATAFLOW_API_VERSION)
                THEN <<Msg("apiVersion must be", <<DATAFLOW_API_VERSION>>)>> ELSE <<>>)
               \o (IF WrongString(text, "kind", DATAFLOW_KIND)
                   THEN <<Msg("kind must be", <<DATAFLOW_KIND>>)>> ELSE <<>>)
    IN  IF Path(doc, <<"spec">>) = None THEN Append(top, SpecRequired)
        ELSE IF Path(doc, <<"spec", "source">>) = None
        THEN Append(top, Msg("spec.source is required", <<>>))
        ELSE IF Path(doc, <<"spec", "sink">>) = None
        THEN Append(top, Msg("spec.sink is required", <<>>))
        ELSE top \o EndpointCheck(doc, "source") \o EndpointCheck(doc, "sink")

\* C16: for a text that parses, validate returns every violated check in the
\* order apiVersion, kind, source, sink, and Ok exactly when there is none; a
\* missing spec, spec.source or spec.sink ends the list with its own error, so
\* a manifest with neither source nor sink reports 'spec.source is required'
\* and nothing about the sink.
C16_ErrorsAccumulateInOrder ==
    (Validated /\ Parses(request.config)) =>
        /\ response = (IF ViolatedChecks(request.config) = <<>> THEN Ok(<<>>)
                       ELSE Err(ViolatedChecks(request.config)))
        /\ (/\ Path(Document(request.config), <<"spec">>) # None
            /\ Path(Document(request.config), <<"spec", "source">>) = None
            /\ Path(Document(request.config), <<"spec", "sink">>) = None)
           => /\ response.errors[Len(response.errors)] = Msg("spec.source is required", <<>>)
              /\ \A k \in 1..Len(response.errors) :
                   response.errors[k].e # "spec.sink is required"

C16_Witness ==
    /\ Validated /\ Parses(request.config)
    /\ Len(response.errors) = 4
    /\ response.errors[1].e = "apiVersion must be"
    /\ response.errors[2].e = "kind must be"
    /\ AboutSide(response.errors[3], "source")
    /\ AboutSide(response.errors[4], "sink")

\* C17: migrate is a deterministic function of its input text: a run on an
\* input that was migrated before returns what the earlier run returned, also
\* when a config holds keys that differ only in letter case.
C17_MigrateDeterministic ==
    [][(/\ request.tool = "migrate"
        /\ pc # "done" /\ pc' = "done"
        /\ response # NoResponse)
       => response' = response]_vars

====
